---- MODULE Spec2Model ----
(***************************************************************************)
(* webpack-hot-server-middleware (src/src/index.js).                       *)
(*                                                                         *)
(* The middleware closes over two variables, serverRenderer and error.    *)
(* The 'done' plugin of the multi compiler writes them after every build;  *)
(* the returned (req, res, next) function reads them.  Both handlers are   *)
(* synchronous, so each is one atomic step.                                *)
(*                                                                         *)
(* JavaScript values are records [type, val]; a call that may throw is a   *)
(* record [ok, value] holding the returned or the thrown value.            *)
(***************************************************************************)
EXTENDS Integers, Sequences, FiniteSets, TLC

\* ------------------------------------------------------------ bounds
MaxBuilds == 3      \* 'done' events in one run
MaxErrors == 2      \* length of compilation.errors
MaxAssets == 3      \* length of an assetsByChunkName array
MaxUnits == 3       \* compilers in the multi compiler

VARIABLES
    compilers,        \* multiCompiler.compilers, by name
    options,          \* the options argument, then the merged options (line 67)
    phase,            \* "new" | "ready" | "threw" (constructor threw) | "crashed"
    serverRenderer,   \* line 88
    error,            \* line 89
    builds,           \* number of 'done' events so far
    factoryCalls,     \* number of invocations of the exported factory so far
    lastDone,         \* what the last 'done' event was given and what it did
    prevKind,         \* outcome of the 'done' event before the last one
    lastReq,          \* what the last request since the last 'done' event did
    thrown,           \* what the constructor threw, if it did
    other             \* two middlewares made from two other multi compilers
                      \* in the same process: for each its closure
                      \* (serverRenderer, error), its 'done' events and
                      \* factory calls, and its last request

vars == <<compilers, options, phase, serverRenderer, error, builds,
          factoryCalls, lastDone, prevKind, lastReq, thrown, other>>

\* ------------------------------------------------------------ JavaScript values
JsFalse == [type |-> "boolean", val |-> "false"]
JsUndefined == [type |-> "undefined", val |-> "undefined"]
Str(s) == [type |-> "string", val |-> s]
Arr(seq) == [type |-> "array", val |-> seq]
ErrorObj(msg) == [type |-> "object", val |-> msg]
Fn(id) == [type |-> "function", val |-> id]
EsModule(def) == [type |-> "esmodule", val |-> def]

\* ToBoolean: false, undefined and the empty string are falsy
Truthy(v) == ~(v = JsFalse \/ v = JsUndefined \/ v = Str(""))

Ret(v) == [ok |-> TRUE, value |-> v]
Throw(v) == [ok |-> FALSE, value |-> v]

TypeError == ErrorObj("TypeError")
ENOENT == ErrorObj("ENOENT")
EISDIR == ErrorObj("EISDIR")
SyntaxError == ErrorObj("SyntaxError")
FactoryFailed == ErrorObj("factory failed")

\* obj[key] of a plain object: undefined when the key is absent
Lookup(obj, key) == IF key \in DOMAIN obj THEN obj[key] ELSE JsUndefined

\* path.join(dir, name): throws on a non-string argument; '' adds nothing
PathJoin(dir, name) ==
    IF name.type # "string" THEN Throw(TypeError)
    ELSE IF name.val = "" THEN Ret(dir)
    ELSE Ret(Str(dir.val \o "/" \o name.val))

\* ------------------------------------------------------------ index.js helpers
DEFAULTS == [k \in {"chunkName"} |-> "main"]

\* Object.assign({}, DEFAULTS, options)
ObjectAssign(a, b) ==
    [k \in DOMAIN a \cup DOMAIN b |-> IF k \in DOMAIN b THEN b[k] ELSE a[k]]

\* interopRequireDefault, line 13
interopRequireDefault(obj) ==
    IF Truthy(obj) /\ obj.type = "esmodule" THEN obj.val ELSE obj

\* the test of findCompiler / findStats
HasName(names, name) == \E i \in 1..Len(names) : names[i] = name

\* findCompiler, line 17: the compiler of that name, or undefined
findCompiler(names, name) ==
    IF HasName(names, name) THEN Str(name) ELSE JsUndefined

\* findStats, line 21: the first stats whose compilation has that name
findStats(multiStats, name) ==
    multiStats[CHOOSE i \in 1..Len(multiStats) :
                   /\ multiStats[i].compilation.name = name
                   /\ \A j \in 1..(i - 1) : multiStats[j].compilation.name # name]

\* stats.toJson(): an object holding the asset manifest under assetsByChunkName
toJson(stats) == [assetsByChunkName |-> stats.compilation.assetsByChunkName]

\* a test for ".js" anywhere in the name, as /\.js/ without the anchor
EndsWithJsUnanchored(asset) ==
    /\ asset.type = "string"
    /\ \E i \in 1..(Len(asset.val) - 2) : SubSeq(asset.val, i, i + 2) = ".js"

\* /\.js$/.test(asset), line 33
EndsWithJs(asset) ==
    /\ asset.type = "string"
    /\ Len(asset.val) >= 3
    /\ SubSeq(asset.val, Len(asset.val) - 2, Len(asset.val)) = ".js"

\* filename.find(asset => /\.js$/.test(asset)), line 33: the first element
\* passing the test, else undefined
FindJs(arr) ==
    IF \E i \in 1..Len(arr) : EndsWithJs(arr[i])
    THEN arr[CHOOSE i \in 1..Len(arr) :
                 EndsWithJs(arr[i]) /\ \A j \in 1..(i - 1) : ~EndsWithJs(arr[j])]
    ELSE JsUndefined

\* getChunkFilename with a bundle name as the fallback for an absent chunk
getChunkFilenameDefaultsToBundle(stats, outputPath, chunkName) ==
    LET assetsByChunkName == toJson(stats).assetsByChunkName
        found == Lookup(assetsByChunkName, chunkName)
        filename == IF Truthy(found) THEN found ELSE Str("server.js")
    IN  PathJoin(outputPath,
                 IF filename.type = "array"
                 THEN FindJs(filename.val)
                 ELSE filename)

\* getChunkFilename, line 25
getChunkFilename(stats, outputPath, chunkName) ==
    LET assetsByChunkName == toJson(stats).assetsByChunkName
        found == Lookup(assetsByChunkName, chunkName)
        filename == IF Truthy(found) THEN found ELSE Str("")
    IN  PathJoin(outputPath,
                 IF filename.type = "array"
                 THEN FindJs(filename.val)
                 ELSE filename)

\* ------------------------------------------------------------ collaborators
\* serverCompiler.outputPath, line 84
OutputPath == Str("/dist")

\* outputFs.readFileSync(path), line 102: a directory and a missing file throw
ReadFileSync(fs, path) ==
    IF path = OutputPath THEN Throw(EISDIR)
    ELSE IF path.val \in DOMAIN fs THEN Ret(fs[path.val])
    ELSE Throw(ENOENT)

\* requireFromString(source, filename), line 104: module.exports of the
\* evaluated source, or what the evaluation throws
requireFromString(source, filename) ==
    CASE source = "module.exports = factory" -> Ret(Fn("factory"))
      [] source = "exports.__esModule = true; exports.default = factory" ->
             Ret(EsModule(Fn("factory")))
      [] source = "module.exports = throwingFactory" -> Ret(Fn("throwingFactory"))
      [] source = "module.exports = {}" -> Ret(ErrorObj("{}"))
      [] source = "throw undefined" -> Throw(JsUndefined)
      [] OTHER -> Throw(SyntaxError)

\* the n-th call of the exported value, line 103-105: a non-function throws a
\* TypeError, a factory returns a fresh renderer closure or throws
CallFactory(f, arg, n) ==
    IF f.type # "function" THEN Throw(TypeError)
    ELSE IF f.val = "factory" THEN Ret(Fn("renderer" \o ToString(n)))
    ELSE Throw(FactoryFailed)

\* ------------------------------------------------------------ inputs
SeqsUpTo(S, n) == UNION {[1..k -> S] : k \in 0..n}

UnitNames == {"client", "server", "other"}
CompilerLists == SeqsUpTo(UnitNames, MaxUnits)
ChunkNames == {"main", "app"}
NoOptions == [k \in {} |-> "main"]
OptionInputs == {NoOptions} \cup {[k \in {"chunkName"} |-> c] : c \in ChunkNames}

ErrorValues == {Str("boom"), Str("")}
ErrorLists == SeqsUpTo(ErrorValues, MaxErrors)

AssetNames == {Str("server.js"), Str("server.js.map"), Str("vendor.js")}
Entries == AssetNames \cup {Arr(a) : a \in SeqsUpTo(AssetNames, MaxAssets)}
EmptyManifest == [k \in {} |-> JsUndefined]
ServerManifests == {[k \in {c} |-> e] : c \in ChunkNames, e \in Entries}
ClientManifests == {[k \in {"main"} |-> Str(f)] : f \in {"main.js", "main.1.js"}}

Sources == {"module.exports = factory",
            "exports.__esModule = true; exports.default = factory",
            "module.exports = throwingFactory",
            "module.exports = {}",
            "throw undefined",
            "syntax error"}
MapSource == "{\"version\":3}"
EmptyFs == [p \in {} |-> ""]
ServerJs == PathJoin(OutputPath, Str("server.js")).value.val
ServerJsMap == PathJoin(OutputPath, Str("server.js.map")).value.val
\* the output directory is empty, or holds a bundle and its source map
FileSystems ==
    {EmptyFs} \cup
    {[p \in {ServerJs, ServerJsMap} |-> IF p = ServerJs THEN src ELSE MapSource] :
        src \in Sources}

Stats(name, errors, manifest) ==
    [compilation |-> [name |-> name, errors |-> errors,
                      assetsByChunkName |-> manifest]]

\* MultiStats: one stats per compiler, in the compilers' order
MultiStats(names, server, client) ==
    [i \in 1..Len(names) |->
        IF names[i] = "server" THEN server
        ELSE IF names[i] = "client" THEN client
        ELSE Stats(names[i], <<>>, EmptyManifest)]

\* the builds a 'done' event reports: a failed server build emits no assets, a
\* successful one emits the main chunk as a bundle, a source map, or both, or
\* emits no main chunk at all
BuildManifests ==
    {[k \in {"main"} |-> e] :
        e \in {Str("server.js"), Str("server.js.map"),
               Arr(<<Str("server.js"), Str("server.js.map")>>),
               Arr(<<Str("server.js.map"), Str("server.js")>>),
               Arr(<<Str("server.js.map")>>)}}
    \cup {[k \in {"vendor"} |-> Str("vendor.js")]}
BuildInputs ==
    {<<Stats("server", errs, EmptyManifest), Stats("client", <<>>, cm)>> :
        errs \in ErrorLists \ {<<>>}, cm \in ClientManifests}
    \cup
    {<<Stats("server", <<>>, sm), Stats("client", <<>>, cm)>> :
        sm \in BuildManifests, cm \in ClientManifests}

\* the output file system as the 'done' handler finds it; a failed server build
\* has written nothing
FileSystemsFor(server) ==
    IF Len(server.compilation.errors) # 0 THEN {EmptyFs} ELSE FileSystems

Requests == {[req |-> "GET /", res |-> "res1", next |-> "next1"],
             [req |-> "GET /a", res |-> "res2", next |-> "next2"]}

\* ------------------------------------------------------------ the handlers
\* the factory given the server stats instead of the client stats
FactoryArgumentServer(clientStats, serverStats) == toJson(serverStats)

\* the argument of the factory, line 105
FactoryArgument(clientStats, serverStats) == toJson(clientStats)

\* the try block of the 'done' handler, lines 102-105, as the n-th factory call:
\* each stage is the value it yields or the value it throws
LoadRenderer(fs, filename, clientStats, serverStats, n) ==
    LET data == ReadFileSync(fs, filename)
        mod == IF data.ok THEN requireFromString(data.value, filename) ELSE data
        exported == IF mod.ok THEN Ret(interopRequireDefault(mod.value)) ELSE mod
        invoked == exported.ok /\ exported.value.type = "function"
        arg == FactoryArgument(clientStats, serverStats)
    IN  [exported |-> exported,
         made |-> IF exported.ok THEN CallFactory(exported.value, arg, n)
                  ELSE exported,
         factoryArgs |-> IF invoked THEN <<arg>> ELSE <<>>]

\* the last error of the list is recorded instead of the first
BuildErrorBranchLastError(renderer, errors) ==
    [serverRenderer |-> renderer, error |-> errors[Len(errors)]]

\* lines 95-98: a server build error is recorded, the renderer is not touched
BuildErrorBranch(renderer, errors) ==
    [serverRenderer |-> renderer, error |-> errors[1]]

\* line 99, then line 100 throws: the error is cleared and nothing else runs
ResolveThrowBranch(renderer) ==
    [serverRenderer |-> renderer, error |-> JsFalse]

\* a renderer once set is never replaced
TryBranchKeepsFirst(renderer, err, made) ==
    [serverRenderer |-> IF renderer.type = "function" THEN renderer ELSE made,
     error |-> JsFalse]

\* the error is not cleared before the try block
TryBranchKeepsError(renderer, err, made) ==
    [serverRenderer |-> made, error |-> err]

\* lines 99 and 103-105: the error is cleared, the renderer is the factory's
\* return value
TryBranch(renderer, err, made) ==
    [serverRenderer |-> made, error |-> JsFalse]

\* the catch block also drops the renderer
CatchBranchDropsRenderer(renderer, err, e) ==
    [serverRenderer |-> JsUndefined, error |-> e]

\* lines 99 and 106-109: the thrown value is recorded, the renderer is not
\* touched
CatchBranch(renderer, err, e) ==
    [serverRenderer |-> renderer, error |-> e]

\* the 'done' handler, lines 91-110, run on the closure state (renderer, err):
\* the new closure state, what the handler let escape, and what it did
DoneHandler(multiStats, fs, chunkName, renderer, err, calls) ==
    LET clientStats == findStats(multiStats, "client")
        serverStats == findStats(multiStats, "server")
        errors == serverStats.compilation.errors
        filename == getChunkFilename(serverStats, OutputPath, chunkName)
        loaded == LoadRenderer(fs, filename.value, clientStats, serverStats,
                               calls + 1)
        none == Ret(JsUndefined)
    IN  IF Len(errors) # 0
        THEN [kind |-> "buildError", state |-> BuildErrorBranch(renderer, errors),
              filename |-> none, escaped |-> none, caught |-> none,
              exported |-> none, made |-> none, factoryArgs |-> <<>>,
              reads |-> 0]
        ELSE IF ~filename.ok
        THEN [kind |-> "resolveThrow", state |-> ResolveThrowBranch(renderer),
              filename |-> filename, escaped |-> filename, caught |-> none,
              exported |-> none, made |-> none, factoryArgs |-> <<>>,
              reads |-> 0]
        ELSE IF ~loaded.made.ok
        THEN [kind |-> "loadThrow",
              state |-> CatchBranch(renderer, err, loaded.made.value),
              filename |-> filename, escaped |-> none, caught |-> loaded.made,
              exported |-> loaded.exported, made |-> loaded.made,
              factoryArgs |-> loaded.factoryArgs, reads |-> 1]
        ELSE [kind |-> "ok", state |-> TryBranch(renderer, err, loaded.made.value),
              filename |-> filename, escaped |-> none, caught |-> none,
              exported |-> loaded.exported, made |-> loaded.made,
              factoryArgs |-> loaded.factoryArgs, reads |-> 1]

\* the middleware function without the return of line 115: next(error) is
\* followed by the renderer call
RequestHandlerFallsThrough(r, renderer, err) ==
    [handled |-> TRUE, args |-> r,
     nextCalls |-> IF Truthy(err) THEN <<[fn |-> r.next, arg |-> err]>> ELSE <<>>,
     rendererCalls |-> IF renderer.type = "function"
                       THEN <<[fn |-> renderer, args |-> r]>> ELSE <<>>,
     threw |-> IF renderer.type = "function" THEN Ret(JsUndefined)
               ELSE Throw(TypeError)]

\* the middleware function, lines 112-118: the calls it makes, or what it throws
RequestHandler(r, renderer, err) ==
    IF Truthy(err)
    THEN [handled |-> TRUE, args |-> r,
          nextCalls |-> <<[fn |-> r.next, arg |-> err]>>,
          rendererCalls |-> <<>>, threw |-> Ret(JsUndefined)]
    ELSE IF renderer.type = "function"
    THEN [handled |-> TRUE, args |-> r, nextCalls |-> <<>>,
          rendererCalls |-> <<[fn |-> renderer, args |-> r]>>,
          threw |-> Ret(JsUndefined)]
    ELSE [handled |-> TRUE, args |-> r, nextCalls |-> <<>>,
          rendererCalls |-> <<>>, threw |-> Throw(TypeError)]

NoRequest ==
    [handled |-> FALSE, args |-> [req |-> "", res |-> "", next |-> ""],
     nextCalls |-> <<>>, rendererCalls |-> <<>>, threw |-> Ret(JsUndefined)]

NoDone ==
    [kind |-> "none", server |-> Stats("server", <<>>, EmptyManifest),
     client |-> Stats("client", <<>>, EmptyManifest),
     filename |-> Ret(JsUndefined), escaped |-> Ret(JsUndefined),
     caught |-> Ret(JsUndefined), exported |-> Ret(JsUndefined),
     made |-> Ret(JsUndefined), factoryArgs |-> <<>>, reads |-> 0]

\* the closure of a middleware right after its construction, lines 88-89
NewClosure ==
    [serverRenderer |-> JsUndefined, error |-> JsFalse, builds |-> 0,
     calls |-> 0, lastReq |-> NoRequest]

Instances == {1, 2}

\* the multi compilers of the two middlewares, both with default options
InstanceCompilers == << <<"client", "server">>, <<"server", "other", "client">> >>

NoOther == [i \in Instances |-> NewClosure]

\* (!multiCompiler) instanceof MultiCompiler, line 69: false for every argument
NotMultiCompiler == FALSE

\* the constructor without the check of the client compiler
ConstructorNoClientCheck(names) ==
    IF ~Truthy(findCompiler(names, "server"))
    THEN Throw(ErrorObj("Expected a webpack compiler named server"))
    ELSE Ret(Fn("middleware"))

\* webpackHotServerMiddleware, lines 64-89: what the constructor throws, if
\* anything
Constructor(names) ==
    IF NotMultiCompiler
    THEN Throw(ErrorObj("Expected webpack compiler to contain both a client and server config"))
    ELSE IF ~Truthy(findCompiler(names, "server"))
    THEN Throw(ErrorObj("Expected a webpack compiler named server"))
    ELSE IF ~Truthy(findCompiler(names, "client"))
    THEN Throw(ErrorObj("Expected a webpack compiler named client"))
    ELSE Ret(Fn("middleware"))

\* ------------------------------------------------------------ actions
\* webpackHotServerMiddleware(multiCompiler, options)
Construct ==
    /\ phase = "new"
    /\ LET made == Constructor(compilers)
       IN  /\ phase' = IF made.ok THEN "ready" ELSE "threw"
           /\ thrown' = IF made.ok THEN JsUndefined ELSE made.value
    /\ options' = ObjectAssign(DEFAULTS, options)
    /\ serverRenderer' = JsUndefined
    /\ error' = JsFalse
    /\ UNCHANGED <<compilers, builds, factoryCalls, lastDone, prevKind, lastReq,
                   other>>

\* the multi compiler emits 'done'; an exception the handler lets escape
\* either ends the process or is swallowed by the host
Done ==
    /\ phase = "ready"
    /\ builds < MaxBuilds
    /\ \E input \in BuildInputs :
       \E fs \in FileSystemsFor(input[1]) :
       \E did \in {DoneHandler(MultiStats(compilers, input[1], input[2]), fs,
                               options.chunkName, serverRenderer, error,
                               factoryCalls)} :
       \E survives \in (IF did.escaped.ok THEN {TRUE} ELSE BOOLEAN) :
         /\ serverRenderer' = did.state.serverRenderer
         /\ error' = did.state.error
         /\ factoryCalls' = factoryCalls + Len(did.factoryArgs)
         /\ phase' = IF survives THEN "ready" ELSE "crashed"
         /\ lastDone' =
              [kind |-> did.kind,
               server |-> input[1],
               client |-> input[2],
               filename |-> did.filename,
               escaped |-> did.escaped,
               caught |-> did.caught,
               exported |-> did.exported,
               made |-> did.made,
               factoryArgs |-> did.factoryArgs,
               reads |-> did.reads]
    /\ builds' = builds + 1
    /\ prevKind' = lastDone.kind
    /\ lastReq' = NoRequest
    /\ UNCHANGED <<compilers, options, thrown, other>>

\* a middleware function that forgets the error once it has reported it
RequestClearsError ==
    /\ phase = "ready"
    /\ \E r \in Requests : lastReq' = RequestHandler(r, serverRenderer, error)
    /\ error' = JsFalse
    /\ UNCHANGED <<compilers, options, phase, serverRenderer, builds,
                   factoryCalls, lastDone, prevKind, thrown, other>>

\* the host application passes a request to the middleware
Request ==
    /\ phase = "ready"
    /\ \E r \in Requests : lastReq' = RequestHandler(r, serverRenderer, error)
    /\ UNCHANGED <<compilers, options, phase, serverRenderer, error, builds,
                   factoryCalls, lastDone, prevKind, thrown, other>>

\* ------------------------------------------------------------ specifications
\* before construction: any compiler list, any options
InitNew ==
    /\ compilers \in CompilerLists
    /\ options \in OptionInputs
    /\ phase = "new"
    /\ serverRenderer = JsUndefined
    /\ error = JsFalse
    /\ builds = 0
    /\ factoryCalls = 0
    /\ lastDone = NoDone
    /\ prevKind = "none"
    /\ lastReq = NoRequest
    /\ thrown = JsUndefined
    /\ other = NoOther

SpecConstruct == InitNew /\ [][Construct]_vars

\* after a construction that returned the middleware, lines 88-89
ReadyCompilerLists == {<<"client", "server">>, <<"server", "other", "client">>}

Init ==
    /\ compilers \in ReadyCompilerLists
    /\ Constructor(compilers).ok
    /\ options \in {ObjectAssign(DEFAULTS, o) : o \in OptionInputs}
    /\ phase = "ready"
    /\ serverRenderer = JsUndefined
    /\ error = JsFalse
    /\ builds = 0
    /\ factoryCalls = 0
    /\ lastDone = NoDone
    /\ prevKind = "none"
    /\ lastReq = NoRequest
    /\ thrown = JsUndefined
    /\ other = NoOther

Next == Done \/ Request

Spec == Init /\ [][Next]_vars

\* the multi compiler of middleware i emits 'done': the handler that
\* middleware registered runs on its own closure.  The renderers its bundle
\* makes are numbered apart from those of the other middleware's bundle.
DoneAtShared(i) ==
    /\ phase = "ready"
    /\ other[1].builds + other[2].builds < MaxBuilds
    /\ \E input \in BuildInputs :
       \E fs \in FileSystemsFor(input[1]) :
       \E did \in {DoneHandler(MultiStats(InstanceCompilers[i], input[1], input[2]),
                               fs, DEFAULTS.chunkName, other[i].serverRenderer,
                               other[i].error,
                               (i - 1) * MaxBuilds + other[i].calls)} :
       \E survives \in (IF did.escaped.ok THEN {TRUE} ELSE BOOLEAN) :
         /\ other' = [j \in Instances |->
                        [serverRenderer |-> did.state.serverRenderer,
                         error |-> did.state.error,
                         builds |-> other[j].builds + (IF j = i THEN 1 ELSE 0),
                         calls |-> other[j].calls
                                     + (IF j = i THEN Len(did.factoryArgs) ELSE 0),
                         lastReq |-> IF j = i THEN NoRequest ELSE other[j].lastReq]]
         /\ phase' = IF survives THEN "ready" ELSE "crashed"
    /\ UNCHANGED <<compilers, options, serverRenderer, error, builds,
                   factoryCalls, lastDone, prevKind, lastReq, thrown>>

DoneAt(i) ==
    /\ phase = "ready"
    /\ other[1].builds + other[2].builds < MaxBuilds
    /\ \E input \in BuildInputs :
       \E fs \in FileSystemsFor(input[1]) :
       \E did \in {DoneHandler(MultiStats(InstanceCompilers[i], input[1], input[2]),
                               fs, DEFAULTS.chunkName, other[i].serverRenderer,
                               other[i].error,
                               (i - 1) * MaxBuilds + other[i].calls)} :
       \E survives \in (IF did.escaped.ok THEN {TRUE} ELSE BOOLEAN) :
         /\ other' = [other EXCEPT ![i] =
                        [serverRenderer |-> did.state.serverRenderer,
                         error |-> did.state.error,
                         builds |-> other[i].builds + 1,
                         calls |-> other[i].calls + Len(did.factoryArgs),
                         lastReq |-> NoRequest]]
         /\ phase' = IF survives THEN "ready" ELSE "crashed"
    /\ UNCHANGED <<compilers, options, serverRenderer, error, builds,
                   factoryCalls, lastDone, prevKind, lastReq, thrown>>

\* the host application passes a request to middleware i
RequestAt(i) ==
    /\ phase = "ready"
    /\ \E r \in Requests :
         other' = [other EXCEPT
                     ![i].lastReq = RequestHandler(r, other[i].serverRenderer,
                                                   other[i].error)]
    /\ UNCHANGED <<compilers, options, phase, serverRenderer, error, builds,
                   factoryCalls, lastDone, prevKind, lastReq, thrown>>

DoneTwo == \E i \in Instances : DoneAt(i)

RequestTwo == \E i \in Instances : RequestAt(i)

NextTwo == DoneTwo \/ RequestTwo

InitTwo ==
    /\ Init
    /\ compilers = InstanceCompilers[1]
    /\ options = DEFAULTS

SpecTwo == InitTwo /\ [][NextTwo]_vars

\* getChunkFilename alone, on every manifest entry
Resolve ==
    /\ phase = "ready"
    /\ \E sm \in ServerManifests :
         lastDone' = [NoDone EXCEPT
                        !.kind = "resolved",
                        !.server = Stats("server", <<>>, sm),
                        !.filename = getChunkFilename(Stats("server", <<>>, sm),
                                                      OutputPath, options.chunkName)]
    /\ UNCHANGED <<compilers, options, phase, serverRenderer, error, builds,
                   factoryCalls, prevKind, lastReq, thrown, other>>

SpecResolve == Init /\ [][Resolve]_vars

\* ------------------------------------------------------------ vocabulary of the claims
\* the server error list and the manifest entry of the last 'done' event
LastErrors == lastDone.server.compilation.errors
LastEntry == Lookup(lastDone.server.compilation.assetsByChunkName, options.chunkName)

\* the last request ended in next(e) and no renderer call
Rejected(e) ==
    /\ lastReq.nextCalls = <<[fn |-> lastReq.args.next, arg |-> e]>>
    /\ lastReq.rendererCalls = <<>>

\* the last request ended in r(req, res, next) and no call of next by the
\* middleware
Forwarded(r) ==
    /\ lastReq.rendererCalls = <<[fn |-> r, args |-> lastReq.args]>>
    /\ lastReq.nextCalls = <<>>

\* the renderer the k-th factory invocation returned
RendererOf(k) == Fn("renderer" \o ToString(k))

FailureKinds == {"buildError", "resolveThrow", "loadThrow"}

\* ------------------------------------------------------------ C1
\* C1: if the last 'done' event reported a non-empty server error list, every
\* request handled before the next 'done' event calls next with the first
\* error of that list and invokes no renderer, whatever that first error is.
C1_ErrorBuildRejects ==
    (lastReq.handled /\ LastErrors # <<>>) => Rejected(LastErrors[1])

\* ------------------------------------------------------------ C2
\* C2: after two consecutive successful 'done' cycles, a request is handled by
\* the renderer the second cycle's factory invocation returned, and by no
\* renderer of an earlier invocation.
C2_SecondRendererServes ==
    (lastReq.handled /\ lastDone.kind = "ok" /\ prevKind = "ok") =>
        /\ factoryCalls >= 2
        /\ lastDone.made = Ret(RendererOf(factoryCalls))
        /\ Forwarded(RendererOf(factoryCalls))
        /\ \A k \in 1..(factoryCalls - 1) :
               lastReq.rendererCalls[1].fn # RendererOf(k)

C2_Witness ==
    /\ lastReq.handled
    /\ lastDone.kind = "ok"
    /\ prevKind = "ok"
    /\ Forwarded(RendererOf(2))

\* ------------------------------------------------------------ C3
\* C3: construction throws whenever the compilers hold no unit named "server",
\* and whenever they hold none named "client", whatever other units there
\* are; it returns the middleware when both are present.
C3_ConstructionChecksUnits ==
    phase # "new" =>
        IF /\ \E i \in 1..Len(compilers) : compilers[i] = "server"
           /\ \E i \in 1..Len(compilers) : compilers[i] = "client"
        THEN phase = "ready" /\ thrown = JsUndefined
        ELSE phase = "threw" /\ thrown.type = "object"

C3_Witness ==
    /\ phase = "threw"
    /\ Len(compilers) = 3
    /\ \E i \in 1..Len(compilers) : compilers[i] = "server"
    /\ \E i \in 1..Len(compilers) : compilers[i] = "other"
    /\ \A i \in 1..Len(compilers) : compilers[i] # "client"

C5_ExactlyOneOutcome ==
    lastReq.handled =>
        IF Truthy(error) THEN Rejected(error) ELSE Forwarded(serverRenderer)

\* C5 as amended: the same, provided a renderer has been set by an earlier
\* successful cycle; with no error set and no renderer set the handler throws
\* a TypeError and makes neither call.
C5_OneOutcomeOnceRendererSet ==
    lastReq.handled =>
        /\ Len(lastReq.nextCalls) + Len(lastReq.rendererCalls) <= 1
        /\ IF Truthy(error) THEN Rejected(error) /\ lastReq.threw.ok
           ELSE IF serverRenderer.type = "function"
           THEN Forwarded(serverRenderer) /\ lastReq.threw.ok
           ELSE /\ lastReq.nextCalls = <<>>
                /\ lastReq.rendererCalls = <<>>
                /\ lastReq.threw = Throw(TypeError)

C5_Witness ==
    /\ lastReq.handled
    /\ lastDone.kind = "buildError"
    /\ serverRenderer = RendererOf(1)
    /\ Rejected(Str("boom"))

\* ------------------------------------------------------------ C6
\* C6: in a 'done' cycle whose server unit reports no errors, if resolving the
\* entry file, reading it, evaluating it or invoking the factory throws, the
\* thrown value does not leave the handler, the current error is that thrown
\* value, and the current renderer is as it was before the cycle.
C6_LoadFailuresCaught ==
    [][(builds' = builds + 1 /\ lastDone'.kind \in {"resolveThrow", "loadThrow"}) =>
          /\ lastDone'.escaped.ok
          /\ error' = (IF lastDone'.kind = "resolveThrow"
                       THEN lastDone'.filename.value
                       ELSE lastDone'.made.value)
          /\ serverRenderer' = serverRenderer]_vars

\* ------------------------------------------------------------ C7
\* C7: once a build error or a load error has been recorded, requests keep
\* being rejected with next(error) until a cycle completes successfully: a
\* request is never forwarded to a renderer older than the latest failure.
C7_NoStaleRendererAfterFailure ==
    (lastReq.handled /\ lastDone.kind \in FailureKinds) =>
        lastReq.rendererCalls = <<>>

\* ------------------------------------------------------------ C8
\* C8 as stated: right after construction and right after every 'done' event,
\* exactly one of "a usable renderer exists" and "an error is recorded" holds,
\* and it matches the outcome of the latest server build.
C8_ExactlyOneOfRendererAndError ==
    phase = "ready" =>
        /\ (serverRenderer.type = "function") # Truthy(error)
        /\ lastDone.kind \in FailureKinds => Truthy(error)
        /\ lastDone.kind = "ok" => serverRenderer.type = "function"

\* C8 as amended: right after construction neither a renderer nor an error
\* exists; after a 'done' event an error is recorded only if the latest cycle
\* failed, and after a successful cycle no error is recorded and the renderer
\* is the usable one that cycle produced.  A stale renderer and an error can
\* exist together.
C8_StateReflectsLatestBuild ==
    phase = "ready" =>
        /\ builds = 0 => (serverRenderer = JsUndefined /\ error = JsFalse)
        /\ Truthy(error) => lastDone.kind \in FailureKinds
        /\ lastDone.kind = "ok" =>
               /\ error = JsFalse
               /\ serverRenderer.type = "function"
               /\ serverRenderer = RendererOf(factoryCalls)

C8_Witness ==
    /\ lastDone.kind = "buildError"
    /\ prevKind = "ok"
    /\ serverRenderer = RendererOf(1)
    /\ error = Str("boom")

\* ------------------------------------------------------------ C9
\* C9 as stated: a successful cycle updates both fields together and a failed
\* cycle leaves both fields untouched.
C9_FailedCycleTouchesNothing ==
    [][(builds' = builds + 1) =>
          IF lastDone'.kind = "ok"
          THEN error' = JsFalse /\ serverRenderer' = lastDone'.made.value
          ELSE serverRenderer' = serverRenderer /\ error' = error]_vars

\* C9 as amended: every request observes the pair as one completed 'done'
\* handler left it; a successful cycle leaves the error cleared and the
\* renderer replaced, a failed cycle leaves the renderer untouched and
\* changes only the current error.
C9_FailedCycleKeepsRenderer ==
    [][/\ (builds' = builds + 1) =>
            IF lastDone'.kind = "ok"
            THEN error' = JsFalse /\ serverRenderer' = lastDone'.made.value
            ELSE serverRenderer' = serverRenderer
       /\ (builds' = builds /\ lastReq'.handled) =>
            /\ UNCHANGED <<serverRenderer, error>>
            /\ IF Truthy(error) THEN lastReq'.nextCalls[1].arg = error
               ELSE serverRenderer.type = "function" =>
                        lastReq'.rendererCalls[1].fn = serverRenderer]_vars

C9_Witness ==
    /\ lastDone.kind = "loadThrow"
    /\ prevKind = "ok"
    /\ serverRenderer = RendererOf(1)
    /\ error = SyntaxError
    /\ lastReq.handled

\* ------------------------------------------------------------ C10
CodeFiles == {Str("server.js"), Str("vendor.js")}

\* C10: for the configured chunkName, a manifest entry that is one filename
\* resolves to the output directory joined with it; a list resolves to the
\* output directory joined with its first entry ending in ".js", so a list of
\* a bundle and a source map resolves to the bundle in either order.
C10_EntryFileResolution ==
    lastDone.kind = "resolved" =>
        /\ LastEntry.type = "string" =>
               lastDone.filename = Ret(Str("/dist/" \o LastEntry.val))
        /\ LastEntry.type = "array" =>
               \A i \in 1..Len(LastEntry.val) :
                   (/\ LastEntry.val[i] \in CodeFiles
                    /\ \A j \in 1..(i - 1) : LastEntry.val[j] \notin CodeFiles)
                   => lastDone.filename = Ret(Str("/dist/" \o LastEntry.val[i].val))

C10_Witness ==
    /\ lastDone.kind = "resolved"
    /\ LastEntry = Arr(<<Str("server.js.map"), Str("server.js")>>)
    /\ lastDone.filename = Ret(Str("/dist/server.js"))

\* ------------------------------------------------------------ C11
\* the configured chunkName has no entry in the server manifest of that event
ChunkAbsent(d) ==
    /\ d.kind \notin {"none", "resolved"}
    /\ d.server.compilation.errors = <<>>
    /\ options.chunkName \notin DOMAIN d.server.compilation.assetsByChunkName

\* C11: if the server build reports no errors but the configured chunkName has
\* no entry in the server manifest, the cycle ends with an error recorded and
\* the renderer unchanged, as for a build error: later requests receive
\* next(error) and no renderer is invoked.
C11_AbsentChunkRecordsError ==
    [][/\ (builds' = builds + 1 /\ ChunkAbsent(lastDone')) =>
            /\ lastDone'.kind = "loadThrow"
            /\ lastDone'.escaped.ok
            /\ lastDone'.filename = Ret(OutputPath)
            /\ error' = EISDIR
            /\ Truthy(error')
            /\ serverRenderer' = serverRenderer
            /\ factoryCalls' = factoryCalls
       /\ (builds' = builds /\ lastReq'.handled /\ ChunkAbsent(lastDone)) =>
            /\ lastReq'.nextCalls = <<[fn |-> lastReq'.args.next, arg |-> error]>>
            /\ lastReq'.rendererCalls = <<>>]_vars

C11_Witness ==
    /\ ChunkAbsent(lastDone)
    /\ options.chunkName = "main"
    /\ prevKind = "ok"
    /\ serverRenderer = RendererOf(1)
    /\ lastReq.handled
    /\ Rejected(EISDIR)

\* ------------------------------------------------------------ C12
\* C12: a 'done' event whose server unit reports one or more errors changes
\* only the current error, to the first error of the list, and leaves the
\* current renderer as it was: no file is read, no module is evaluated and
\* the factory is not invoked.
C12_BuildErrorChangesOnlyError ==
    [][(builds' = builds + 1 /\ lastDone'.server.compilation.errors # <<>>) =>
          /\ lastDone'.kind = "buildError"
          /\ error' = lastDone'.server.compilation.errors[1]
          /\ serverRenderer' = serverRenderer
          /\ lastDone'.reads = 0
          /\ lastDone'.exported = Ret(JsUndefined)
          /\ lastDone'.factoryArgs = <<>>
          /\ factoryCalls' = factoryCalls
          /\ lastDone'.escaped.ok]_vars

C12_Witness ==
    /\ lastDone.kind = "buildError"
    /\ LastErrors = <<Str("boom"), Str("")>>
    /\ error = Str("boom")
    /\ prevKind = "ok"
    /\ serverRenderer = RendererOf(1)

\* ------------------------------------------------------------ C13
\* C13: handling a request never changes the dispatcher state: the current
\* renderer and the current error are the same after a request as before it,
\* on either branch; only the 'done' handler writes them.
C13_RequestKeepsState ==
    [][/\ builds' = builds => UNCHANGED <<serverRenderer, error>>
       /\ (lastReq'.handled /\ lastReq' # lastReq) => builds' = builds]_vars

C13_Witness ==
    /\ lastReq.handled
    /\ Rejected(Str("boom"))
    /\ error = Str("boom")
    /\ serverRenderer = RendererOf(1)

\* ------------------------------------------------------------ C14
\* C14: provided no request is handled before the first 'done' event, the
\* request handler never invokes an unset renderer: a request that reaches
\* the renderer call finds the return value of a factory invocation of a
\* completed cycle.  (A 'done' event resets lastReq and requests change
\* nothing else, so the states after the first event are the same with and
\* without earlier requests.)
C14_NoUnsetRendererInvoked ==
    (lastReq.handled /\ builds >= 1) =>
        /\ lastReq.threw.ok
        /\ lastReq.rendererCalls # <<>> =>
               \E k \in 1..factoryCalls :
                   lastReq.rendererCalls[1].fn = RendererOf(k)

\* ------------------------------------------------------------ C15
\* C15: two middlewares made from two multi compilers have independent
\* dispatcher state: a 'done' event of one compiler never changes the renderer
\* or the error of the other middleware, and a request to a middleware is
\* answered from that middleware's own renderer and error.
C15_InstancesIndependent ==
    [][\A i \in Instances : \A j \in Instances \ {i} :
         /\ other'[i].builds # other[i].builds =>
              /\ other'[j].serverRenderer = other[j].serverRenderer
              /\ other'[j].error = other[j].error
              /\ other'[j].lastReq = other[j].lastReq
         /\ (other'[i].lastReq.handled /\ other'[i].lastReq # other[i].lastReq) =>
              /\ other'[i].lastReq = RequestHandler(other'[i].lastReq.args,
                                                    other[i].serverRenderer,
                                                    other[i].error)
              /\ other'[j] = other[j]]_vars

\* the first middleware serves its renderer while the second, whose compiler
\* has since built twice, rejects with its build error
C15_Witness ==
    /\ other[1].builds = 1
    /\ other[2].builds = 2
    /\ other[1].serverRenderer = RendererOf(1)
    /\ other[1].error = JsFalse
    /\ other[2].serverRenderer = RendererOf(MaxBuilds + 1)
    /\ other[2].error = Str("boom")
    /\ other[1].lastReq.rendererCalls # <<>>
    /\ other[1].lastReq.rendererCalls[1].fn = RendererOf(1)
    /\ other[2].lastReq.nextCalls = <<[fn |-> other[2].lastReq.args.next,
                                      arg |-> Str("boom")]>>

====
